---- MODULE Spec2Model ----
(***************************************************************************)
(* Shift Tracker: the two CSV tables (users_db.csv, shift_db.csv), the     *)
(* FileManager that reads and rewrites them through pandas, and the three  *)
(* tkinter frames (LoginView, HomeView, AddWindow) whose button callbacks  *)
(* call it.                                                                *)
(*                                                                         *)
(* A text is a sequence of one-character strings.  A CSV file is a         *)
(* sequence of rows of texts: what to_csv wrote.  pd.read_csv infers a     *)
(* type per column, so a cell read back is a typed value, not the text.    *)
(***************************************************************************)
EXTENDS Integers, Sequences, FiniteSets, TLC

VARIABLES
    users_csv,      \* data/users_db.csv: rows [Name, Surname, UserId] of texts
    shift_csv,      \* data/shift_db.csv: rows [UserId, Date, Start, End, Hours]
    frame,          \* the frame MainApp shows
    username,       \* MainApp.shared_data["username"] (the login entry's text)
    login_prompt,   \* LoginView.login_prompt
    message,        \* LoginView.message
    reg_form,       \* LoginView.ent_name / ent_surname / ent_userid after a press
    shift_db,       \* HomeView.shift_db: the DataFrame read when the app started
    tree,           \* HomeView.tv_shift_table: its items, in display order
    add_message,    \* AddWindow.message
    last            \* the callback that ran last, with its inputs and outcome

vars == <<users_csv, shift_csv, frame, username, login_prompt, message,
          reg_form, shift_db, tree, add_message, last>>

(***************************************************************************)
(* Bounds of the model.                                                    *)
(***************************************************************************)
MaxUsers == 2       \* rows the Users table may grow to
MaxShifts == 2      \* rows the Shift table may grow to
MaxTree == 2        \* items the shift table on screen may grow to
MaxAddRows == 1     \* rows the Shift table may grow to under SpecAdd

(***************************************************************************)
(* Texts and Python's int().                                               *)
(***************************************************************************)
Digits == {"0", "1", "2", "3", "4", "5", "6", "7", "8", "9"}

DigitVal(c) ==
    CASE c = "0" -> 0 [] c = "1" -> 1 [] c = "2" -> 2 [] c = "3" -> 3
      [] c = "4" -> 4 [] c = "5" -> 5 [] c = "6" -> 6 [] c = "7" -> 7
      [] c = "8" -> 8 [] c = "9" -> 9

DigitChar(d) == <<"0", "1", "2", "3", "4", "5", "6", "7", "8", "9">>[d + 1]

\* str.isdigit() on the texts of the model, which is also when int(t) succeeds
IsDigitText(t) == Len(t) > 0 /\ \A i \in 1..Len(t) : t[i] \in Digits

RECURSIVE ToInt(_)
ToInt(t) ==
    IF Len(t) = 0 THEN 0
    ELSE 10 * ToInt(SubSeq(t, 1, Len(t) - 1)) + DigitVal(t[Len(t)])

RECURSIVE FormatInt(_)
FormatInt(n) ==
    IF n < 10 THEN <<DigitChar(n)>>
    ELSE FormatInt(n \div 10) \o <<DigitChar(n % 10)>>

(***************************************************************************)
(* pandas: a cell of a column as read_csv returns it, and as to_csv writes *)
(* it.  A column whose every cell is an integer literal is read as int64;  *)
(* any other column of the model is read as object, its cells str.         *)
(***************************************************************************)
StrCell(t) == [type |-> "str", n |-> 0, s |-> t]
IntCell(k) == [type |-> "int", n |-> k, s |-> <<>>]

ColumnIsInt(texts) ==
    Len(texts) > 0 /\ \A i \in 1..Len(texts) : IsDigitText(texts[i])

ReadColumn(texts) ==
    IF ColumnIsInt(texts)
    THEN [i \in 1..Len(texts) |-> IntCell(ToInt(texts[i]))]
    ELSE [i \in 1..Len(texts) |-> StrCell(texts[i])]

WriteCell(c) == IF c.type = "int" THEN FormatInt(c.n) ELSE c.s

\* Python's ==  between a str and a value of a column
PyEq(a, b) == a.type = b.type /\ a.n = b.n /\ a.s = b.s

(***************************************************************************)
(* FileManager on the Users table.                                         *)
(***************************************************************************)
UserIdColumn(csv) == [i \in 1..Len(csv) |-> csv[i].UserId]

\* pd.read_csv(path_to_users_db)
ReadUsers(csv) ==
    LET ids == ReadColumn(UserIdColumn(csv))
    IN  [i \in 1..Len(csv) |->
            [Name |-> csv[i].Name, Surname |-> csv[i].Surname, UserId |-> ids[i]]]

WriteUsers(df) ==
    [i \in 1..Len(df) |->
        [Name |-> df[i].Name, Surname |-> df[i].Surname,
         UserId |-> WriteCell(df[i].UserId)]]

check_if_userid_exists(csv, userid) ==
    LET user_id_list == ReadUsers(csv)
    IN  \E i \in 1..Len(user_id_list) :
            PyEq(StrCell(userid), user_id_list[i].UserId)

save_to_userList(csv, name, surname, userid) ==
    WriteUsers(Append(ReadUsers(csv),
                      [Name |-> name, Surname |-> surname,
                       UserId |-> StrCell(userid)]))

(***************************************************************************)
(* FileManager on the Shift table.  The Date, Start time and End time      *)
(* columns hold the texts str(date) and str(time) wrote, which read_csv    *)
(* returns as they are; they are kept as [y, m, d] and [h, m].  The No of  *)
(* hours column holds a float with two decimals, kept in hundredths.       *)
(***************************************************************************)
ShiftIdColumn(csv) == [i \in 1..Len(csv) |-> csv[i].UserId]

\* pd.read_csv(path_to_shift_db): a DataFrame with the index labels 0..n-1
ReadShifts(csv) ==
    LET ids == ReadColumn(ShiftIdColumn(csv))
    IN  [i \in 1..Len(csv) |->
            [Index |-> i - 1, UserId |-> ids[i], Date |-> csv[i].Date,
             Start |-> csv[i].Start, End |-> csv[i].End, Hours |-> csv[i].Hours]]

\* df.to_csv(path_to_shift_db, index=False)
updated_shift_db(df) ==
    [i \in 1..Len(df) |->
        [UserId |-> WriteCell(df[i].UserId), Date |-> df[i].Date,
         Start |-> df[i].Start, End |-> df[i].End, Hours |-> df[i].Hours]]

\* DataFrame.append(row, ignore_index=True): the labels are 0..n again
AppendRow(df, row) ==
    LET all == Append(df, row)
    IN  [i \in 1..Len(all) |-> [all[i] EXCEPT !.Index = i - 1]]

add_entry_to_shift_db(csv, userid, date, start_time, end_time, no_of_hours) ==
    LET shift_db_df == ReadShifts(csv)
        new_shift_entry == [Index |-> 0, UserId |-> StrCell(userid), Date |-> date,
                            Start |-> start_time, End |-> end_time,
                            Hours |-> no_of_hours]
    IN  updated_shift_db(AppendRow(shift_db_df, new_shift_entry))

get_user_specific_entry(csv, userid) ==
    SelectSeq(ReadShifts(csv), LAMBDA row : PyEq(StrCell(userid), row.UserId))

\* DataFrame.drop(label): the row of that label, wherever it now stands
HasLabel(df, label) == \E i \in 1..Len(df) : df[i].Index = label

Drop(df, label) == SelectSeq(df, LAMBDA row : row.Index # label)

(***************************************************************************)
(* datetime.date, datetime.time and the number of hours.                   *)
(***************************************************************************)
IsLeap(y) == y % 4 = 0 /\ (y % 100 # 0 \/ y % 400 = 0)

DaysInMonth(y, m) ==
    IF m = 2 THEN (IF IsLeap(y) THEN 29 ELSE 28)
    ELSE IF m \in {4, 6, 9, 11} THEN 30 ELSE 31

\* mutant of DateOk: the month is not checked
DateOkAnyMonth(y, m, d) ==
    /\ 1 <= y /\ y <= 9999
    /\ 1 <= d /\ d <= DaysInMonth(y, m)

\* date(y, m, d) raises ValueError unless this holds
DateOk(y, m, d) ==
    /\ 1 <= y /\ y <= 9999
    /\ 1 <= m /\ m <= 12
    /\ 1 <= d /\ d <= DaysInMonth(y, m)

\* time(hour=h, minute=m) raises ValueError unless this holds
TimeOk(h, m) == 0 <= h /\ h <= 23 /\ 0 <= m /\ m <= 59

\* str.split(":")
RECURSIVE Split(_)
Split(t) ==
    IF \A i \in 1..Len(t) : t[i] # ":" THEN <<t>>
    ELSE LET k == CHOOSE i \in 1..Len(t) :
                      t[i] = ":" /\ \A j \in 1..(i - 1) : t[j] # ":"
         IN  <<SubSeq(t, 1, k - 1)>> \o Split(SubSeq(t, k + 1, Len(t)))


\* mutant of TimedeltaSeconds: the signed difference, as total_seconds() gives
TimedeltaSecondsSigned(start_time, end_time) ==
    ((end_time.h * 60 + end_time.m) - (start_time.h * 60 + start_time.m)) * 60

\* (datetime.combine(d, end) - datetime.combine(d, start)).seconds: a timedelta
\* is normalised to days and 0 <= seconds < 86400
TimedeltaSeconds(start_time, end_time) ==
    (((end_time.h * 60 + end_time.m) - (start_time.h * 60 + start_time.m)) * 60)
        % 86400

\* mutant of NoOfHours: the hours cut to two decimals instead of rounded
NoOfHoursTruncated(start_time, end_time) ==
    TimedeltaSeconds(start_time, end_time) \div 36

\* round(seconds / 3600, 2), in hundredths of an hour.  seconds is a multiple
\* of 60, so seconds / 36 is never half way between two integers.
NoOfHours(start_time, end_time) ==
    (TimedeltaSeconds(start_time, end_time) + 18) \div 36

(***************************************************************************)
(* What the user can type.                                                 *)
(***************************************************************************)
UserIdInputs == {<<>>, <<"a">>, <<"7">>}
\* name, surname, user id
RegisterInputs == {<<<<>>, <<>>, <<>>>>, <<<<"x">>, <<"y">>, <<"a">>>>,
                   <<<<"x">>, <<"y">>, <<"7">>>>}
\* year, month, day
DateInputs == {<<<<"2", "0", "2", "4">>, <<"2">>, <<"2", "9">>>>,
               <<<<"2", "0", "2", "4">>, <<"1", "3">>, <<"1">>>>}
FromInputs == {<<"0", "9", ":", "0", "0">>}
ToInputs == {<<"1", "7", ":", "3", "0">>, <<"9">>, <<"2", "5", ":", "0", "0">>}

\* the wider inputs of SpecAdd
WideDateInputs == {<<<<"2", "0", "2", "4">>, <<"2">>, <<"2", "9">>>>,
                   <<<<"2", "0", "2", "3">>, <<"2">>, <<"2", "9">>>>,
                   <<<<"2", "0", "2", "4">>, <<"1", "3">>, <<"1">>>>,
                   <<<<"2", "0", "2", "4">>, <<>>, <<"1">>>>,
                   <<<<"0">>, <<"1">>, <<"1">>>>}
WideFromInputs == {<<"0", "9", ":", "0", "0">>,
                   <<"1", "7", ":", "3", "0">>, <<"9", ":", "5">>,
                   <<"H", "H", ":", "M", "M">>, <<"9">>,
                   <<"0", "8", ":", "6", "0">>, <<>>}
WideToInputs == {<<"0", "9", ":", "0", "0">>,
                 <<"0", "9", ":", "0", "1">>, <<"1", "7", ":", "3", "0">>,
                 <<"H", "H", ":", "M", "M">>, <<"9">>, <<"1", ":", "2", ":", "3">>,
                 <<"2", "5", ":", "0", "0">>}

MsgFillIn == "Please fill in all the boxes."
MsgDuplicate == "This User ID already exists. Please enter a different User ID."
MsgCreated == "Congratulation, your account has been created."
MsgInvalidId == "Invalid User ID. Please try again."
MsgValueError == "Value Error! Please fill in the boxes with appropriate entry."

NoLast ==
    [op |-> "none", userid |-> <<>>, sel |-> 0 - 1, outcome |-> "", raised_by |-> ""]

(***************************************************************************)
(* MainApp.__init__: the state when the application has started.  Both     *)
(* files exist and hold their header line.                                 *)
(***************************************************************************)
Init ==
    /\ users_csv = <<>>
    /\ shift_csv = <<>>
    /\ frame = "LoginView"
    /\ username = <<>>
    /\ login_prompt = ""
    /\ message = ""
    /\ reg_form = [name |-> <<>>, surname |-> <<>>, userid |-> <<>>]
    /\ shift_db = <<>>
    /\ tree = <<>>
    /\ add_message = ""
    /\ last = NoLast

(***************************************************************************)
(* LoginView.                                                              *)
(***************************************************************************)
create_user(name, surname, userid) ==
    /\ frame = "LoginView"
    /\ IF name = <<>> \/ surname = <<>> \/ userid = <<>>
       THEN /\ message' = MsgFillIn
            /\ reg_form' = [name |-> name, surname |-> surname, userid |-> userid]
            /\ last' = [NoLast EXCEPT !.op = "create_user", !.userid = userid,
                            !.outcome = "empty"]
            /\ UNCHANGED users_csv
       ELSE IF check_if_userid_exists(users_csv, userid)
       THEN /\ reg_form' = [name |-> name, surname |-> surname, userid |-> <<>>]
            /\ message' = MsgDuplicate
            /\ last' = [NoLast EXCEPT !.op = "create_user", !.userid = userid,
                            !.outcome = "duplicate"]
            /\ UNCHANGED users_csv
       ELSE /\ Len(users_csv) < MaxUsers
            /\ users_csv' = save_to_userList(users_csv, name, surname, userid)
            /\ reg_form' = [name |-> <<>>, surname |-> <<>>, userid |-> <<>>]
            /\ message' = MsgCreated
            /\ last' = [NoLast EXCEPT !.op = "create_user", !.userid = userid,
                            !.outcome = "created"]
    /\ UNCHANGED <<shift_csv, frame, username, login_prompt, shift_db, tree,
                   add_message>>

(***************************************************************************)
(* ttk.Treeview: the items of tv_shift_table.                              *)
(***************************************************************************)
TreeIds(tr) == {tr[i].iid : i \in 1..Len(tr)}

\* insert(parent='', index=index, iid=iid, values=...), iid not yet in the tree
TreeInsert(tr, index, item) ==
    LET k == IF index < Len(tr) THEN index ELSE Len(tr)
    IN  SubSeq(tr, 1, k) \o <<item>> \o SubSeq(tr, k + 1, Len(tr))

TreeDelete(tr, iid) == SelectSeq(tr, LAMBDA item : item.iid # iid)

TreeItem(iid, date, start_time, end_time, no_of_hours) ==
    [iid |-> iid, Date |-> date, Start |-> start_time, End |-> end_time,
     Hours |-> no_of_hours]

\* the loop of populate_tree from row i on; ok is FALSE when an insert raised
\* TclError because the item id was already in the tree
RECURSIVE PopulateFrom(_, _, _)
PopulateFrom(tr, tbl_values, i) ==
    IF i >= Len(tbl_values) THEN [tree |-> tr, ok |-> TRUE]
    ELSE IF i \in TreeIds(tr) THEN [tree |-> tr, ok |-> FALSE]
    ELSE PopulateFrom(
            TreeInsert(tr, i, TreeItem(i, tbl_values[i + 1].Date,
                                       tbl_values[i + 1].Start,
                                       tbl_values[i + 1].End,
                                       tbl_values[i + 1].Hours)),
            tbl_values, i + 1)

populate_tree(tr, csv, userid) ==
    PopulateFrom(tr, get_user_specific_entry(csv, userid), 0)

login_user(userid) ==
    /\ frame = "LoginView"
    /\ username' = userid
    /\ IF ~check_if_userid_exists(users_csv, userid)
       THEN /\ login_prompt' = MsgInvalidId
            /\ last' = [NoLast EXCEPT !.op = "login_user", !.userid = userid,
                            !.outcome = "invalid"]
            /\ UNCHANGED <<tree, frame>>
       ELSE LET r == populate_tree(tree, shift_csv, userid)
            IN  /\ login_prompt' = ""
                /\ tree' = r.tree
                /\ frame' = IF r.ok THEN "HomeView" ELSE frame
                /\ last' = [NoLast EXCEPT !.op = "login_user", !.userid = userid,
                                !.outcome = IF r.ok THEN "home" ELSE "TclError"]
    /\ UNCHANGED <<users_csv, shift_csv, message, reg_form, shift_db,
                   add_message>>

(***************************************************************************)
(* HomeView.                                                               *)
(***************************************************************************)
open_add_window ==
    /\ frame = "HomeView"
    /\ frame' = "AddWindow"
    /\ last' = [NoLast EXCEPT !.op = "open_add_window"]
    /\ UNCHANGED <<users_csv, shift_csv, username, login_prompt, message,
                   reg_form, shift_db, tree, add_message>>

NoSelection == 0 - 1

\* sel is the first selected item of the table, NoSelection when there is none
delete_selected_entry(sel) ==
    /\ frame = "HomeView"
    /\ IF sel = NoSelection
       THEN /\ UNCHANGED <<tree, shift_db>>
            /\ last' = [NoLast EXCEPT !.op = "delete_selected_entry",
                            !.userid = username, !.outcome = "IndexError"]
       ELSE /\ tree' = TreeDelete(tree, sel)
            /\ IF HasLabel(shift_db, sel)
               THEN /\ shift_db' = Drop(shift_db, sel)
                    /\ last' = [NoLast EXCEPT !.op = "delete_selected_entry",
                                    !.userid = username, !.sel = sel,
                                    !.outcome = "dropped"]
               ELSE /\ UNCHANGED shift_db
                    /\ last' = [NoLast EXCEPT !.op = "delete_selected_entry",
                                    !.userid = username, !.sel = sel,
                                    !.outcome = "KeyError"]
    /\ shift_csv' = updated_shift_db(shift_db')
    /\ UNCHANGED <<users_csv, frame, username, login_prompt, message, reg_form,
                   add_message>>

log_out_user ==
    /\ frame = "HomeView"
    /\ tree' = <<>>
    /\ frame' = "LoginView"
    /\ username' = <<>>
    /\ reg_form' = [name |-> <<>>, surname |-> <<>>, userid |-> <<>>]
    /\ message' = ""
    /\ last' = [NoLast EXCEPT !.op = "log_out_user"]
    /\ UNCHANGED <<users_csv, shift_csv, login_prompt, shift_db, add_message>>

(***************************************************************************)
(* AddWindow.  The texts of the model hold digits, letters and ":", and    *)
(* int(t) raises ValueError on every such text that is not all digits.     *)
(***************************************************************************)
\* date(int(year), int(month), int(day)): ValueError from int() or from date()
DateResult(year, month, day) ==
    IF /\ IsDigitText(year) /\ IsDigitText(month) /\ IsDigitText(day)
       /\ DateOk(ToInt(year), ToInt(month), ToInt(day))
    THEN [exc |-> "none",
          val |-> [y |-> ToInt(year), m |-> ToInt(month), d |-> ToInt(day)]]
    ELSE [exc |-> "ValueError"]

\* time(hour=int(s.split(":")[0]), minute=int(s.split(":")[1])): the hour is
\* evaluated first
StartTimeResult(s) ==
    LET parts == Split(s)
    IN  IF ~IsDigitText(parts[1]) THEN [exc |-> "ValueError"]
        ELSE IF Len(parts) < 2 THEN [exc |-> "IndexError"]
        ELSE IF ~IsDigitText(parts[2]) THEN [exc |-> "ValueError"]
        ELSE IF ~TimeOk(ToInt(parts[1]), ToInt(parts[2]))
        THEN [exc |-> "ValueError"]
        ELSE [exc |-> "none", val |-> [h |-> ToInt(parts[1]), m |-> ToInt(parts[2])]]

\* time(minute=int(s.split(":")[1]), hour=int(s.split(":")[0])): the minute is
\* evaluated first
EndTimeResult(s) ==
    LET parts == Split(s)
    IN  IF Len(parts) < 2 THEN [exc |-> "IndexError"]
        ELSE IF ~IsDigitText(parts[2]) THEN [exc |-> "ValueError"]
        ELSE IF ~IsDigitText(parts[1]) THEN [exc |-> "ValueError"]
        ELSE IF ~TimeOk(ToInt(parts[1]), ToInt(parts[2]))
        THEN [exc |-> "ValueError"]
        ELSE [exc |-> "none", val |-> [h |-> ToInt(parts[1]), m |-> ToInt(parts[2])]]

\* the try block up to the computation of no_of_hours: the exception raised,
\* if any, and the date, the times and the number of hours when there is none
Validate(year, month, day, from, to) ==
    LET d == DateResult(year, month, day)
        st == StartTimeResult(from)
        et == EndTimeResult(to)
    IN  IF d.exc # "none" THEN [exc |-> d.exc, at |-> "date"]
        ELSE IF st.exc # "none" THEN [exc |-> st.exc, at |-> "start_time"]
        ELSE IF et.exc # "none" THEN [exc |-> et.exc, at |-> "end_time"]
        ELSE [exc |-> "none", date |-> d.val, start_time |-> st.val,
              end_time |-> et.val, no_of_hours |-> NoOfHours(st.val, et.val)]

\* the item id update_shift_entry_table gives the new row
NewItemId(tr) == Len(tr) + 1

\* mutant of add_button_action: the row is written once the date is valid,
\* before the times are
add_button_action_WritesEarly(year, month, day, from, to) ==
    /\ frame = "AddWindow"
    /\ LET v == Validate(year, month, day, from, to)
           d == DateResult(year, month, day)
       IN  IF v.exc # "none"
           THEN /\ add_message' =
                     IF v.exc = "ValueError" THEN MsgValueError ELSE add_message
                /\ shift_csv' =
                     IF d.exc = "none"
                     THEN add_entry_to_shift_db(shift_csv, username, d.val,
                              [h |-> 0, m |-> 0], [h |-> 0, m |-> 0], 0)
                     ELSE shift_csv
                /\ last' = [NoLast EXCEPT !.op = "add_button_action",
                                !.userid = username, !.outcome = v.exc,
                                !.raised_by = v.at]
                /\ UNCHANGED <<tree, frame>>
           ELSE /\ Len(shift_csv) < MaxShifts
                /\ Len(tree) < MaxTree
                /\ shift_csv' = add_entry_to_shift_db(shift_csv, username, v.date,
                                    v.start_time, v.end_time, v.no_of_hours)
                /\ tree' = TreeInsert(tree, Len(tree) + 1,
                                TreeItem(NewItemId(tree), v.date, v.start_time,
                                         v.end_time, v.no_of_hours))
                /\ frame' = "HomeView"
                /\ last' = [NoLast EXCEPT !.op = "add_button_action",
                                !.userid = username, !.outcome = "added"]
                /\ UNCHANGED add_message
    /\ UNCHANGED <<users_csv, username, login_prompt, message, reg_form, shift_db>>

add_button_action(year, month, day, from, to) ==
    /\ frame = "AddWindow"
    /\ LET v == Validate(year, month, day, from, to)
       IN  IF v.exc = "ValueError"
           THEN /\ add_message' = MsgValueError
                /\ last' = [NoLast EXCEPT !.op = "add_button_action",
                                !.userid = username, !.outcome = "ValueError",
                                !.raised_by = v.at]
                /\ UNCHANGED <<shift_csv, tree, frame>>
           ELSE IF v.exc = "IndexError"
           THEN /\ last' = [NoLast EXCEPT !.op = "add_button_action",
                                !.userid = username, !.outcome = "IndexError",
                                !.raised_by = v.at]
                /\ UNCHANGED <<shift_csv, tree, frame, add_message>>
           ELSE /\ Len(shift_csv) < MaxShifts
                /\ Len(tree) < MaxTree
                /\ shift_csv' = add_entry_to_shift_db(shift_csv, username, v.date,
                                    v.start_time, v.end_time, v.no_of_hours)
                /\ IF NewItemId(tree) \in TreeIds(tree)
                   THEN /\ last' = [NoLast EXCEPT !.op = "add_button_action",
                                        !.userid = username, !.outcome = "TclError"]
                        /\ UNCHANGED <<tree, frame>>
                   ELSE /\ tree' = TreeInsert(tree, Len(tree) + 1,
                                       TreeItem(NewItemId(tree), v.date,
                                                v.start_time, v.end_time,
                                                v.no_of_hours))
                        /\ frame' = "HomeView"
                        /\ last' = [NoLast EXCEPT !.op = "add_button_action",
                                        !.userid = username, !.outcome = "added"]
                /\ UNCHANGED add_message
    /\ UNCHANGED <<users_csv, username, login_prompt, message, reg_form, shift_db>>

cancel_add_entry ==
    /\ frame = "AddWindow"
    /\ frame' = "HomeView"
    /\ add_message' = ""
    /\ last' = [NoLast EXCEPT !.op = "cancel_add_entry"]
    /\ UNCHANGED <<users_csv, shift_csv, username, login_prompt, message,
                   reg_form, shift_db, tree>>

(***************************************************************************)
(* The application is closed and started again: MainApp.__init__ builds    *)
(* the frames anew, and HomeView reads the Shift table into shift_db.      *)
(***************************************************************************)
Restart ==
    /\ frame' = "LoginView"
    /\ username' = <<>>
    /\ login_prompt' = ""
    /\ message' = ""
    /\ reg_form' = [name |-> <<>>, surname |-> <<>>, userid |-> <<>>]
    /\ shift_db' = ReadShifts(shift_csv)
    /\ tree' = <<>>
    /\ add_message' = ""
    /\ last' = [NoLast EXCEPT !.op = "restart"]
    /\ UNCHANGED <<users_csv, shift_csv>>

Next ==
    \/ \E r \in RegisterInputs : create_user(r[1], r[2], r[3])
    \/ \E userid \in UserIdInputs : login_user(userid)
    \/ open_add_window
    \/ \E sel \in {NoSelection} \cup TreeIds(tree) : delete_selected_entry(sel)
    \/ log_out_user
    \/ \E date \in DateInputs, from \in FromInputs, to \in ToInputs :
          add_button_action(date[1], date[2], date[3], from, to)
    \/ cancel_add_entry
    \/ Restart

Spec == Init /\ [][Next]_vars

(***************************************************************************)
(* The AddWindow alone, over the wider inputs: user "a" has registered,    *)
(* logged in and pressed Add in the HomeView, on empty tables.             *)
(***************************************************************************)
InitAdd ==
    /\ users_csv = <<[Name |-> <<"x">>, Surname |-> <<"y">>, UserId |-> <<"a">>]>>
    /\ shift_csv = <<>>
    /\ frame = "AddWindow"
    /\ username = <<"a">>
    /\ login_prompt = ""
    /\ message = MsgCreated
    /\ reg_form = [name |-> <<>>, surname |-> <<>>, userid |-> <<>>]
    /\ shift_db = <<>>
    /\ tree = <<>>
    /\ add_message = ""
    /\ last = [NoLast EXCEPT !.op = "open_add_window"]

NextAdd ==
    \/ \E date \in WideDateInputs, from \in WideFromInputs, to \in WideToInputs :
          /\ \/ Len(shift_csv) < MaxAddRows
             \/ Validate(date[1], date[2], date[3], from, to).exc # "none"
          /\ add_button_action(date[1], date[2], date[3], from, to)
    \/ open_add_window
    \/ cancel_add_entry

SpecAdd == InitAdd /\ [][NextAdd]_vars

(***************************************************************************)
(* Vocabulary of the properties.                                           *)
(***************************************************************************)
\* the sequence without its k-th element; the sequence itself when k = 0
RemoveAt(seq, k) ==
    [i \in 1..(Len(seq) - (IF k \in 1..Len(seq) THEN 1 ELSE 0)) |->
        IF i < k \/ k = 0 THEN seq[i] ELSE seq[i + 1]]

\* the records get_user_specific_entry returns, without their index labels
Records(csv, userid) ==
    LET rows == get_user_specific_entry(csv, userid)
    IN  [i \in 1..Len(rows) |->
            [UserId |-> rows[i].UserId, Date |-> rows[i].Date,
             Start |-> rows[i].Start, End |-> rows[i].End, Hours |-> rows[i].Hours]]

\* some row of the Users table holds this text as its user id
IdInTable(csv, userid) == \E i \in 1..Len(csv) : csv[i].UserId = userid

Minutes(t) == t.h * 60 + t.m

\* hundredths is minutes / 60 hours rounded to two decimals: the nearest
\* multiple of 0.01 hour, |hundredths / 100 - minutes / 60| <= 0.005
IsRounded(hundredths, minutes) ==
    /\ 6 * hundredths - 10 * minutes <= 3
    /\ 10 * minutes - 6 * hundredths <= 3

Created == last.op = "create_user" /\ last.outcome = "created"
Deleted == last.op = "delete_selected_entry" /\ last.outcome # "IndexError"
RowWritten ==
    last.op = "add_button_action" /\ last.outcome \in {"added", "TclError"}
Rejected ==
    last.op = "add_button_action" /\ last.outcome \in {"ValueError", "IndexError"}
LastRow == shift_csv[Len(shift_csv)]

(***************************************************************************)
(* C1: a user id that create_user has just registered is found by          *)
(* check_if_userid_exists, which reads the Users table again.              *)
(***************************************************************************)
C1_RegisteredIdExists ==
    Created => check_if_userid_exists(users_csv, last.userid)

(***************************************************************************)
(* C2: create_user with a user id that a row of the Users table already    *)
(* holds, and with a name and a surname, is rejected: the duplicate        *)
(* message is shown, the id field is cleared and the table keeps its rows. *)
(***************************************************************************)
C2_DuplicateRejected ==
    [][(/\ last'.op = "create_user"
        /\ last'.outcome # "empty"
        /\ IdInTable(users_csv, last'.userid))
       => (/\ last'.outcome = "duplicate"
           /\ message' = MsgDuplicate
           /\ reg_form'.userid = <<>>
           /\ users_csv' = users_csv)]_vars

(***************************************************************************)
(* C3: no two rows of the Users table hold the same user id.               *)
(***************************************************************************)
C3_UniqueUserIds ==
    \A i, j \in 1..Len(users_csv) :
        i # j => users_csv[i].UserId # users_csv[j].UserId

(***************************************************************************)
(* C4: deleting the i-th row shown in the shift table removes exactly the  *)
(* i-th of the records get_user_specific_entry returns for the user.       *)
(***************************************************************************)
C4_DeleteRemovesIth ==
    [][\A i \in 1..Len(tree) :
          (/\ last'.op = "delete_selected_entry"
           /\ last'.sel = tree[i].iid)
          => Records(shift_csv', username)
                = RemoveAt(Records(shift_csv, username), i)]_vars

(***************************************************************************)
(* C5: a deletion by the logged-in user leaves the records of every other  *)
(* user as get_user_specific_entry returned them before.                   *)
(***************************************************************************)
C5_DeleteKeepsOtherUsers ==
    [][(last'.op = "delete_selected_entry" /\ last'.outcome # "IndexError")
       => \A u \in UserIdInputs \ {username} :
              Records(shift_csv', u) = Records(shift_csv, u)]_vars

(***************************************************************************)
(* C6: a deletion starts from the Shift table as persisted: the table it   *)
(* writes is the persisted one without at most one row, so every row added *)
(* since the application started, but the deleted one, is still there.     *)
(***************************************************************************)
C6_DeleteStartsFromPersisted ==
    [][(last'.op = "delete_selected_entry" /\ last'.outcome # "IndexError")
       => \E k \in 0..Len(shift_csv) :
              shift_csv' = RemoveAt(shift_csv, k)]_vars

(***************************************************************************)
(* C7: after add_entry_to_shift_db, get_user_specific_entry returns the    *)
(* user's previous records in their order, followed by one record with the *)
(* user id, date, times and hours that were added.                         *)
(***************************************************************************)
C7_AddThenList ==
    [][(/\ last'.op = "add_button_action"
        /\ last'.outcome \in {"added", "TclError"})
       => LET new == shift_csv'[Len(shift_csv')]
          IN  Records(shift_csv', username)
                = Append(Records(shift_csv, username),
                         [UserId |-> StrCell(username), Date |-> new.Date,
                          Start |-> new.Start, End |-> new.End,
                          Hours |-> new.Hours])]_vars

(***************************************************************************)
(* C8: a press of Add whose input fails validation (ValueError or          *)
(* IndexError in the try block) leaves the Shift table as it was.          *)
(***************************************************************************)
C8_RejectedWritesNothing ==
    [][(/\ last'.op = "add_button_action"
        /\ last'.outcome \in {"ValueError", "IndexError"})
       => shift_csv' = shift_csv]_vars

C8_Witness == Rejected /\ Len(shift_csv) > 0

(***************************************************************************)
(* C9: when the end time is later than the start time, the number of hours *)
(* stored is (end - start) in hours rounded to 2 decimals; 09:00 to 17:30  *)
(* gives 8.5.                                                              *)
(***************************************************************************)
C9_HoursRounded ==
    (RowWritten /\ Minutes(LastRow.End) > Minutes(LastRow.Start))
    => /\ IsRounded(LastRow.Hours, Minutes(LastRow.End) - Minutes(LastRow.Start))
       /\ (LastRow.Start = [h |-> 9, m |-> 0] /\ LastRow.End = [h |-> 17, m |-> 30])
              => LastRow.Hours = 850

C9_Witness ==
    /\ RowWritten
    /\ LastRow.Start = [h |-> 9, m |-> 0]
    /\ LastRow.End = [h |-> 9, m |-> 1]
    /\ LastRow.Hours = 2

(***************************************************************************)
(* C10 as stated: when the end time is earlier than the start time, the    *)
(* number of hours stored is negative.                                     *)
(***************************************************************************)
C10_HoursNegative ==
    (RowWritten /\ Minutes(LastRow.End) < Minutes(LastRow.Start))
    => LastRow.Hours < 0

(***************************************************************************)
(* C10 amended: when the end time is earlier than the start time, the      *)
(* number of hours stored is positive: 24 hours less (start - end),        *)
(* rounded to 2 decimals.                                                  *)
(***************************************************************************)
C10_HoursWrap ==
    (RowWritten /\ Minutes(LastRow.End) < Minutes(LastRow.Start))
    => /\ LastRow.Hours > 0
       /\ IsRounded(LastRow.Hours,
                    24 * 60 - (Minutes(LastRow.Start) - Minutes(LastRow.End)))

C10_Witness ==
    /\ RowWritten
    /\ LastRow.Start = [h |-> 17, m |-> 30]
    /\ LastRow.End = [h |-> 9, m |-> 0]
    /\ LastRow.Hours = 1550


(***************************************************************************)
(* C11, C12: the texts add_button_action accepts.                          *)
(***************************************************************************)
\* a time text of exactly two numeric parts, hour 0..23 and minute 0..59
WellFormedTime(t) ==
    LET parts == Split(t)
    IN  /\ Len(parts) = 2
        /\ IsDigitText(parts[1]) /\ IsDigitText(parts[2])
        /\ ToInt(parts[1]) \in 0..23
        /\ ToInt(parts[2]) \in 0..59

\* year, month and day are filled in and name a day of the calendar
CalendarDate(year, month, day) ==
    /\ IsDigitText(year) /\ IsDigitText(month) /\ IsDigitText(day)
    /\ LET y == ToInt(year)
           m == ToInt(month)
           d == ToInt(day)
           february == IF (y % 4 = 0 /\ y % 100 # 0) \/ y % 400 = 0
                       THEN 29 ELSE 28
           lengths == <<31, february, 31, 30, 31, 30, 31, 31, 30, 31, 30, 31>>
       IN  /\ y \in 1..9999
           /\ m \in 1..12
           /\ d \in 1..lengths[m]

\* C11: a press of Add whose start or end time text is not two numeric parts
\* with hour 0..23 and minute 0..59 takes the handled ValueError branch, shows
\* the error message and stores no shift
C11_MalformedTimeRejected ==
    [][\A date \in WideDateInputs, from \in WideFromInputs, to \in WideToInputs :
          (/\ ~(WellFormedTime(from) /\ WellFormedTime(to))
           /\ add_button_action(date[1], date[2], date[3], from, to))
          => /\ last'.outcome = "ValueError"
             /\ add_message' = MsgValueError
             /\ shift_csv' = shift_csv]_vars

C13_NothingToDelete ==
    [][(/\ last'.op = "delete_selected_entry"
        /\ \/ last'.sel = NoSelection
           \/ last'.sel \notin 0..(Len(shift_csv) - 1))
       => shift_csv' = shift_csv]_vars

\* C14: login_user shows the HomeView exactly when the entered id is in the
\* persisted Users table, and otherwise shows the invalid-id message on the
\* LoginView; whenever the HomeView or the AddWindow is shown the session user
\* id is a registered id; and a row appended by add_button_action carries it
C14_SessionUserRegistered ==
    [][/\ last'.op = "login_user" =>
            /\ (frame' = "HomeView") <=> IdInTable(users_csv, last'.userid)
            /\ ~IdInTable(users_csv, last'.userid) =>
                    (login_prompt' = MsgInvalidId /\ frame' = "LoginView")
       /\ frame' \in {"HomeView", "AddWindow"} => IdInTable(users_csv', username')
       /\ (last'.op = "add_button_action" /\ shift_csv' # shift_csv) =>
            /\ Len(shift_csv') = Len(shift_csv) + 1
            /\ shift_csv'[Len(shift_csv')].UserId = username]_vars

\* the date, start, end and hours of the items of the shift table, in order
TreeValues(tr) ==
    [i \in 1..Len(tr) |->
        [Date |-> tr[i].Date, Start |-> tr[i].Start, End |-> tr[i].End,
         Hours |-> tr[i].Hours]]

\* the date, start, end and hours get_user_specific_entry returns, in order
RecordValues(csv, userid) ==
    LET rows == get_user_specific_entry(csv, userid)
    IN  [i \in 1..Len(rows) |->
            [Date |-> rows[i].Date, Start |-> rows[i].Start, End |-> rows[i].End,
             Hours |-> rows[i].Hours]]

\* C15: whenever the HomeView is shown, the rows of the shift table are the
\* records get_user_specific_entry returns for the session user from the
\* persisted Shift table
C15_TableShowsPersisted ==
    frame = "HomeView" => TreeValues(tree) = RecordValues(shift_csv, username)

\* C16: the item id update_shift_entry_table would choose is never the id of an
\* item of the table, and an add that has written its row has also inserted
\* it in the table and returned to the HomeView
C16_AddCompletes ==
    /\ frame \in {"HomeView", "AddWindow"} => NewItemId(tree) \notin TreeIds(tree)
    /\ RowWritten => (last.outcome = "added" /\ frame = "HomeView")

====
